---- MODULE Spec2Model ----
(***************************************************************************)
(* A model of the schema node of src/src/mixed.ts (class MixedSchema and   *)
(* class RefSet): the heap of schema nodes, the exclusivity tables they    *)
(* point to, the batch-mutation windows opened by withMutation, and the    *)
(* builder, cast and validate operations.                                  *)
(*                                                                         *)
(* Schema nodes are objects: `schemas` is the heap, a node is named by its *)
(* index.  The `_exclusive` object of a node is kept in a heap of its own  *)
(* (`tables`) because concat() stores the receiver's table object in the   *)
(* node it returns (mixed.ts:249), so two nodes can share one table.  The  *)
(* `tests` array is aliased the same way (mixed.ts:248) but test() and     *)
(* notRequired() always replace the array by a filtered copy before they   *)
(* change it (mixed.ts:598, 524), so the array is modelled by value.       *)
(***************************************************************************)
EXTENDS Integers, Sequences, FiniteSets, TLC

VARIABLES
  schemas,  \* the heap of schema nodes, in allocation order
  tables,   \* the heap of `_exclusive` objects
  stack,    \* the withMutation calls in progress, outermost first
  hist,     \* the last two calls made on the heap (history, not program state)
  calls,    \* the number of calls made so far (history, not program state)
  out,      \* what the last cast / validate / isValid call gave back
  run,      \* the _validate call in progress, test by test
  ended     \* the withMutation call that ended last (history)

vars == <<schemas, tables, stack, hist, calls, out, run, ended>>

(***************************************************************************)
(* Bounds of the model.                                                    *)
(***************************************************************************)
MaxCalls == 2        \* calls made on the nodes of the heap
MaxDepth == 1        \* nested withMutation calls in progress

(***************************************************************************)
(* Values.  JavaScript values are strings here; `undefined` and `null` are *)
(* two of them.                                                            *)
(***************************************************************************)
Undefined == "undefined"
Null == "null"
Values == {Undefined, Null, "1", "2", "a"}
Numbers == {"1", "2"}

UNSET == "@@UNSET_DEFAULT"

NoName == Undefined
TestNames == {"x", "y"}
AllNames == TestNames \cup {"required", "defined"}
TestFns == {"f1", "f2"}

\* A RefSet: the literal values and the keys of the references it holds.
RefSet == [list |-> {}, refs |-> {}]

RefSetAdd(set, value) ==
  IF value.isRef THEN [set EXCEPT !.refs = @ \cup {value.key}]
  ELSE [set EXCEPT !.list = @ \cup {value.v}]

RefSetDelete(set, value) ==
  IF value.isRef THEN [set EXCEPT !.refs = @ \ {value.key}]
  ELSE [set EXCEPT !.list = @ \ {value.v}]

\* has(value, resolve): `ctx` gives the value each reference resolves to.
RefSetHas(set, value, ctx) ==
  \/ value \in set.list
  \/ \E k \in set.refs : ctx[k] = value

RefSetSize(set) == Cardinality(set.list) + Cardinality(set.refs)

RefSetMergeKeepsRemoved(set, newItems, removeItems) ==
  [list |-> set.list \cup newItems.list,
   refs |-> set.refs \cup newItems.refs]

RefSetMerge(set, newItems, removeItems) ==
  [list |-> (set.list \cup newItems.list) \ removeItems.list,
   refs |-> (set.refs \cup newItems.refs) \ removeItems.refs]

Lit(v) == [isRef |-> FALSE, v |-> v, key |-> ""]
Ref(k) == [isRef |-> TRUE, v |-> Undefined, key |-> k]

(***************************************************************************)
(* A freshly constructed node (the MixedSchema constructor).               *)
(***************************************************************************)
EmptyTable == [n \in AllNames |-> "unset"]

NoDefault == [fn |-> FALSE, v |-> Undefined]

MixedSchema(type, table) ==
  [type |-> type,
   mutate |-> FALSE,
   spec |-> [hasDefault |-> FALSE, strip |-> FALSE, strict |-> FALSE,
             abortEarly |-> TRUE, nullable |-> FALSE, default |-> NoDefault],
   label |-> Undefined,
   meta |-> [defined |-> FALSE, keys |-> {}],
   tests |-> << >>,
   exclusive |-> table,
   transforms |-> << >>,
   whitelist |-> RefSet,
   blacklist |-> RefSet,
   typeError |-> "notType",
   whitelistError |-> FALSE,
   blacklistError |-> FALSE,
   conditions |-> << >>,
   deps |-> << >>,
   \* history, not a field of the object: was the node's default set
   \* explicitly, by default(v) on it or on a node whose default it carries?
   explicit |-> FALSE,
   \* history: for each literal value, the call that mentioned it last
   mention |-> [v \in Values |-> "none"]]

\* The heap as one value: operations take a heap and give back a heap.
Heap == [s |-> schemas, t |-> tables]

\* What a node holds, with its exclusivity table in place of the pointer.
View(H, i) == [H.s[i] EXCEPT !.exclusive = H.t[H.s[i].exclusive]]

Ok(H, i) == [h |-> H, ret |-> i, err |-> "none"]
Throw(H, i, e) == [h |-> H, ret |-> i, err |-> e]

(***************************************************************************)
(* clone(): the node itself inside a batch-mutation window, and a deep     *)
(* copy otherwise (a new node with a new `_exclusive` object).             *)
(***************************************************************************)
clone(H, i) ==
  IF H.s[i].mutate THEN Ok(H, i)
  ELSE Ok([s |-> Append(H.s, [H.s[i] EXCEPT !.exclusive = Len(H.t) + 1]),
           t |-> Append(H.t, H.t[H.s[i].exclusive])],
          Len(H.s) + 1)

\* The node `n` of heap H with its record replaced.
Put(H, n, rec) == [H EXCEPT !.s[n] = rec]

(***************************************************************************)
(* test(options): registration of a test on the clone.  The clone is made  *)
(* (mixed.ts:583) before the check that an exclusive test has a name       *)
(* (mixed.ts:589), so the call that throws leaves an unused node behind.   *)
(***************************************************************************)
TestConfig(name, exclusive, fn) ==
  [name |-> name, exclusive |-> exclusive, test |-> fn]

\* The filter of the test queue (mixed.ts:598-604): is the queued test `fn`
\* dropped when `opts` is registered?
droppedOnlyIfSameFunction(fn, opts, isExclusive) ==
  fn.name = opts.name /\ fn.test = opts.test

droppedOnlyIfExclusive(fn, opts, isExclusive) ==
  fn.name = opts.name /\ isExclusive

droppedByName(fn, opts, isExclusive) ==
  fn.name = opts.name

dropped(fn, opts, isExclusive) ==
  fn.name = opts.name /\ (isExclusive \/ fn.test = opts.test)

test(H, r, opts) ==
  LET c == clone(H, r)
      n == c.ret
      node == c.h.s[n]
      tab == node.exclusive
      isExclusive ==
        \/ opts.exclusive
        \/ (opts.name # NoName /\ c.h.t[tab][opts.name] = "true")
      T1 == IF opts.name # NoName
            THEN [c.h.t EXCEPT ![tab][opts.name] =
                     IF opts.exclusive THEN "true" ELSE "false"]
            ELSE c.h.t
      Keep(fn) == ~ dropped(fn, opts, isExclusive)
      kept == SelectSeq(node.tests, Keep)
  IN IF opts.exclusive /\ opts.name = NoName THEN Throw(c.h, r, "TypeError")
     ELSE Ok([s |-> [c.h.s EXCEPT ![n].tests = Append(kept, opts)],
              t |-> T1], n)

required(H, r) == test(H, r, TestConfig("required", TRUE, "isPresent"))

defined(H, r) == test(H, r, TestConfig("defined", TRUE, "isDefined"))

notRequired(H, r) ==
  LET c == clone(H, r)
      n == c.ret
      Keep(fn) == fn.name # "required"
  IN Ok([c.h EXCEPT !.s[n].tests = SelectSeq(@, Keep)], n)

(***************************************************************************)
(* The other mutators: each changes the clone and returns it.              *)
(***************************************************************************)
label(H, r, l) ==
  LET c == clone(H, r) IN Ok([c.h EXCEPT !.s[c.ret].label = l], c.ret)

\* meta(obj): Object.assign(next._meta || {}, obj); a meta object is the set of
\* its keys.
meta(H, r, obj) ==
  LET c == clone(H, r)
  IN Ok([c.h EXCEPT !.s[c.ret].meta = [defined |-> TRUE, keys |-> @.keys \cup obj]],
        c.ret)

nullable(H, r, isNullable) ==
  LET c == clone(H, r)
  IN Ok([c.h EXCEPT !.s[c.ret].spec.nullable = isNullable], c.ret)

\* default(def): `def` is a value or a function giving a value.
default(H, r, def) ==
  LET c == clone(H, r)
  IN Ok([c.h EXCEPT !.s[c.ret].spec.hasDefault = TRUE,
                    !.s[c.ret].spec.default = def,
                    !.s[c.ret].explicit = TRUE], c.ret)

strict(H, r, isStrict) ==
  LET c == clone(H, r)
  IN Ok([c.h EXCEPT !.s[c.ret].spec.strict = isStrict], c.ret)

strip(H, r, b) ==
  LET c == clone(H, r)
  IN Ok([c.h EXCEPT !.s[c.ret].spec.strip = b], c.ret)

transform(H, r, fn) ==
  LET c == clone(H, r)
  IN Ok([c.h EXCEPT !.s[c.ret].transforms = Append(@, fn)], c.ret)

\* Reference.isSibling: a key is a sibling's unless it names the context
\* ("$...") or the value itself (".").
isSibling(key) == key \notin {"$c", "."}

\* when(keys, options) with one key; the condition is the key and the options.
when(H, r, key, options) ==
  LET c == clone(H, r)
      n == c.ret
      H1 == IF isSibling(key)
            THEN [c.h EXCEPT !.s[n].deps = Append(@, key)]
            ELSE c.h
  IN Ok([H1 EXCEPT !.s[n].conditions =
            Append(@, [key |-> key, is |-> options.is, then |-> options.then])],
        n)

typeError(H, r, message) ==
  LET c == clone(H, r)
  IN Ok([c.h EXCEPT !.s[c.ret].typeError = message], c.ret)

\* enums.forEach(add to one list, delete from the other): the items of `enums`
\* do not interfere, so their order does not matter and `enums` is a set.
RECURSIVE AddAll(_, _)
AddAll(set, enums) ==
  IF enums = {} THEN set
  ELSE LET val == CHOOSE v \in enums : TRUE
       IN AddAll(RefSetAdd(set, val), enums \ {val})

RECURSIVE DeleteAll(_, _)
DeleteAll(set, enums) ==
  IF enums = {} THEN set
  ELSE LET val == CHOOSE v \in enums : TRUE
       IN DeleteAll(RefSetDelete(set, val), enums \ {val})

\* The literal values among `enums` were mentioned last by `op` (history).
Mentioned(mention, enums, op) ==
  [v \in Values |-> IF Lit(v) \in enums THEN op ELSE mention[v]]

oneOf(H, r, enums) ==
  LET c == clone(H, r)
      n == c.ret
  IN Ok([c.h EXCEPT !.s[n].whitelist = AddAll(@, enums),
                    !.s[n].blacklist = DeleteAll(@, enums),
                    !.s[n].whitelistError = TRUE,
                    !.s[n].mention = Mentioned(@, enums, "oneOf")], n)

notOneOfKeepsWhitelist(H, r, enums) ==
  LET c == clone(H, r)
      n == c.ret
  IN Ok([c.h EXCEPT !.s[n].blacklist = AddAll(@, enums),
                    !.s[n].blacklistError = TRUE,
                    !.s[n].mention = Mentioned(@, enums, "notOneOf")], n)

notOneOf(H, r, enums) ==
  LET c == clone(H, r)
      n == c.ret
  IN Ok([c.h EXCEPT !.s[n].blacklist = AddAll(@, enums),
                    !.s[n].whitelist = DeleteAll(@, enums),
                    !.s[n].blacklistError = TRUE,
                    !.s[n].mention = Mentioned(@, enums, "notOneOf")], n)

(***************************************************************************)
(* util/prependDeep (imported as `merge`, mixed.ts:7): every field of      *)
(* `source` (the receiver of concat) is put under `target` (the clone of   *)
(* the argument): a field that is undefined in the target takes the        *)
(* source's value, arrays become source's followed by target's, plain      *)
(* objects are merged field by field, and any other field of the target    *)
(* stays.                                                                  *)
(***************************************************************************)
merge(target, source) ==
  [target EXCEPT
     !.mutate = @ \/ source.mutate,
     !.label = IF @ = Undefined THEN source.label ELSE @,
     !.meta = IF ~ @.defined THEN source.meta
              ELSE [@ EXCEPT !.keys = @ \cup source.meta.keys],
     !.tests = source.tests \o @,
     !.transforms = source.transforms \o @,
     !.conditions = source.conditions \o @,
     !.deps = source.deps \o @,
     !.whitelistError = @ \/ source.whitelistError,
     !.blacklistError = @ \/ source.blacklistError,
     !.spec.default = IF @ = NoDefault THEN source.spec.default ELSE @]

(***************************************************************************)
(* concat(schema).  `a` is the argument, `r` the receiver.  Every line     *)
(* reads the nodes as they are when it runs: inside a window of `a` the    *)
(* clone is `a` itself.                                                    *)
(***************************************************************************)
RECURSIVE reRegister(_, _, _)
reRegister(H, n, fns) ==
  IF fns = << >> THEN H
  ELSE reRegister(test(H, n, Head(fns)).h, n, Tail(fns))

concat(H, r, a) ==
  IF a = r THEN Ok(H, r)
  ELSE IF H.s[a].type # H.s[r].type /\ H.s[r].type # "mixed"
  THEN Throw(H, r, "TypeError")
  ELSE
    LET c == clone(H, a)
        n == c.ret
        this == c.h.s[r]
        H1 == Put(c.h, n, merge(c.h.s[n], this))
        H2 == IF H1.s[a].spec.hasDefault
              THEN [H1 EXCEPT !.s[n].spec.default = H1.s[a].spec.default]
              ELSE H1
        H3 == [H2 EXCEPT !.s[n].tests = this.tests,
                         !.s[n].exclusive = this.exclusive]
        H4 == [H3 EXCEPT !.s[n].whitelist =
                 RefSetMerge(this.whitelist, H3.s[a].whitelist, H3.s[a].blacklist)]
        H5 == [H4 EXCEPT !.s[n].blacklist =
                 RefSetMerge(this.blacklist, H4.s[a].blacklist, H4.s[a].whitelist)]
        before == H5.s[n].mutate
        H6 == [H5 EXCEPT !.s[n].mutate = TRUE]
        H7 == reRegister(H6, n, H6.s[a].tests)
    IN Ok([H7 EXCEPT !.s[n].mutate = before,
                     !.s[n].explicit = H.s[a].explicit \/ H.s[r].explicit], n)

(***************************************************************************)
(* Options of cast and validate.  An option left out is Undefined; `d` is  *)
(* the value of the sibling field "d" (options.parent) and `c` the value   *)
(* of the context entry "$c".                                              *)
(***************************************************************************)
NoOptions ==
  [d |-> Undefined, c |-> Undefined, strict |-> Undefined,
   abortEarly |-> Undefined, assert |-> Undefined, sync |-> FALSE]

\* `{ x = dflt } = options`: the option, or the default when it is left out.
Option(x, dflt) == IF x = Undefined THEN dflt ELSE x = "true"

(***************************************************************************)
(* The type check.  MixedSchema accepts every value; a schema kind made    *)
(* with another `type` overrides _typeCheck ("number" accepts numbers).    *)
(***************************************************************************)
typeCheckOf(type, v) == v \in Numbers

_typeCheck(node, v) ==
  IF node.type = "mixed" THEN TRUE ELSE typeCheckOf(node.type, v)

isType(node, v) ==
  IF node.spec.nullable /\ v = Null THEN TRUE ELSE _typeCheck(node, v)

(***************************************************************************)
(* _cast: the transforms, then the default.                                *)
(***************************************************************************)
TransformFns == {"toNumber", "toUndefined", "original"}

\* fn.call(this, value, rawValue) for the transform functions of the model.
ApplyTransform(fn, value, rawValue) ==
  CASE fn = "toNumber" -> IF value = "a" THEN "1" ELSE value
    [] fn = "toUndefined" -> Undefined
    [] fn = "original" -> rawValue
    [] fn = "fill" -> IF value = Undefined THEN "2" ELSE value
    [] OTHER -> value

RECURSIVE reduce(_, _, _)
reduce(fns, value, rawValue) ==
  IF fns = << >> THEN value
  ELSE reduce(Tail(fns), ApplyTransform(Head(fns), value, rawValue), rawValue)

\* default() without arguments: the stored value, or the factory's result.
getDefaultValue(node) == node.spec.default.v

_castTransformsUndefined(node, rawValue) ==
  LET value == reduce(node.transforms, rawValue, rawValue)
  IN IF value = Undefined /\ node.spec.default # [fn |-> FALSE, v |-> UNSET]
     THEN getDefaultValue(node)
     ELSE value

_cast(node, rawValue) ==
  LET value == IF rawValue = Undefined THEN rawValue
               ELSE reduce(node.transforms, rawValue, rawValue)
  IN IF value = Undefined /\ node.spec.default # [fn |-> FALSE, v |-> UNSET]
     THEN getDefaultValue(node)
     ELSE value

(***************************************************************************)
(* resolve(options).  Condition.resolve (./Condition) looks its key up in  *)
(* the options and, when the value is the condition's `is`, applies its    *)
(* `then` branch, a function of the schema: s => s.required(), or a        *)
(* function that throws.  It resolves the schema the branch returned,      *)
(* unless the branch returned the schema it was given.                     *)
(***************************************************************************)
getValue(key, value, options) ==
  CASE key = "." -> value
    [] key = "$c" -> options.c
    [] OTHER -> options.d

RECURSIVE resolve(_, _, _, _)
RECURSIVE conditionResolve(_, _, _, _, _)
RECURSIVE reduceConditions(_, _, _, _, _)

\* The schema the branch returned is resolved, unless it is the one given.
resolveBranch(b, base, value, options) ==
  IF b.ret = base THEN b ELSE resolve(b.h, b.ret, value, options)

conditionResolve(H, condition, base, value, options) ==
  IF getValue(condition.key, value, options) # condition.is THEN Ok(H, base)
  ELSE IF condition.then = "throw" THEN Throw(H, base, "Error")
  ELSE resolveBranch(required(H, base), base, value, options)

\* One step of conditions.reduce: x is what the condition before gave.
reduceStep(x, conditions, value, options) ==
  IF x.err # "none" THEN x
  ELSE reduceConditions(x.h, conditions, x.ret, value, options)

reduceConditions(H, conditions, schema, value, options) ==
  IF conditions = << >> THEN Ok(H, schema)
  ELSE reduceStep(conditionResolve(H, Head(conditions), schema, value, options),
                  Tail(conditions), value, options)

\* schema = schema.resolve(options), on what the conditions gave.
resolveAgain(x, value, options) ==
  IF x.err # "none" THEN x ELSE resolve(x.h, x.ret, value, options)

\* The clone `c` has its conditions cleared and the conditions applied to it.
resolveClone(c, conditions, value, options) ==
  resolveAgain(reduceConditions([c.h EXCEPT !.s[c.ret].conditions = << >>],
                                conditions, c.ret, value, options),
               value, options)

resolve(H, r, value, options) ==
  IF H.s[r].conditions = << >> THEN Ok(H, r)
  ELSE resolveClone(clone(H, r), H.s[r].conditions, value, options)

(***************************************************************************)
(* cast(value, options).  A result: what the call returned or threw.       *)
(***************************************************************************)
Returned(v) == [kind |-> "ok", value |-> v, errors |-> << >>]
Raised(kind, v) == [kind |-> kind, value |-> v, errors |-> << >>]

\* What a cast / validate call gives: the heap, the resolved node, the result.
Result(x, res) == [h |-> x.h, ret |-> x.ret, out |-> res]

castResultAssertsAlways(resolvedSchema, value, options, result) ==
  IF options.assert # "false" /\ ~ isType(resolvedSchema, result)
  THEN Raised("TypeError", result)
  ELSE Returned(result)

\* The check of the cast result (mixed.ts:316-333) and the return.
castResult(resolvedSchema, value, options, result) ==
  IF /\ value # Undefined
     /\ options.assert # "false"
     /\ ~ isType(resolvedSchema, result)
  THEN Raised("TypeError", result)
  ELSE Returned(result)

\* cast on the outcome `x` of resolve.
castResolved(x, value, options) ==
  IF x.err # "none" THEN Result(x, Raised(x.err, Undefined))
  ELSE Result(x, castResult(x.h.s[x.ret], value, options,
                            _cast(x.h.s[x.ret], value)))

cast(H, r, value, options) ==
  castResolved(resolve(H, r, value, options), value, options)

getDefaultResolved(x) ==
  IF x.err # "none" THEN Result(x, Raised(x.err, Undefined))
  ELSE Result(x, Returned(getDefaultValue(x.h.s[x.ret])))

\* getDefault(options): resolve, then default().
getDefault(H, r, options) ==
  getDefaultResolved(resolve(H, r, Undefined, options))

(***************************************************************************)
(* The tests.  createValidation (./util/createValidation) wraps a test     *)
(* function: the wrapped test passes, fails with a ValidationError, or     *)
(* hands on the error the function threw; a function that returns a        *)
(* promise in a synchronous run is an error of that kind too.              *)
(***************************************************************************)
\* The test functions of the model, on a value.
TestFn(fn, value, sync) ==
  CASE fn = "f1" -> IF value = "1" THEN "fail" ELSE "pass"
    [] fn = "f2" -> IF value \in {"1", "2"} THEN "fail" ELSE "pass"
    [] fn = "isPresent" -> IF value \in {Undefined, Null} THEN "fail" ELSE "pass"
    [] fn = "isDefined" -> IF value = Undefined THEN "fail" ELSE "pass"
    [] fn = "boom" -> "throw"
    [] fn = "later" -> IF sync THEN "throw" ELSE "pass"
    [] OTHER -> "pass"

\* The references of the model resolve to the sibling "d" and the context "$c".
Context(options) == [k \in {"d", "$c"} |-> IF k = "d" THEN options.d ELSE options.c]

\* The three tests typeError(), oneOf() and notOneOf() make, as queue entries.
TypeErrorTest == TestConfig("typeError", FALSE, "typeError")
WhitelistTest == TestConfig("oneOf", FALSE, "oneOf")
BlacklistTest == TestConfig("notOneOf", FALSE, "notOneOf")

RunTest(node, t, value, options) ==
  CASE t = TypeErrorTest ->
         IF value # Undefined /\ ~ isType(node, value) THEN "fail" ELSE "pass"
    [] t = WhitelistTest ->
         IF value = Undefined THEN "pass"
         ELSE IF RefSetHas(node.whitelist, value, Context(options)) THEN "pass"
         ELSE "fail"
    [] t = BlacklistTest ->
         IF RefSetHas(node.blacklist, value, Context(options)) THEN "fail"
         ELSE "pass"
    [] OTHER -> TestFn(t.test, value, options.sync)

(***************************************************************************)
(* runTests (./util/runTests): the tests are run in order; an error that   *)
(* is no ValidationError ends the run at once, and so does a failure when  *)
(* endEarly is set; otherwise the failures are collected into one          *)
(* ValidationError.                                                        *)
(***************************************************************************)
Failed(value, errors) == [kind |-> "ValidationError", value |-> value, errors |-> errors]

RECURSIVE runTests(_, _, _, _, _, _)

\* The outcome `o` of the first test of `tests`, and the tests after it.
runTestsStep(o, node, tests, value, options, endEarly, nestedErrors) ==
  IF o = "throw" THEN Raised("Error", value)
  ELSE IF o = "fail" /\ endEarly THEN Failed(value, <<Head(tests)>>)
  ELSE runTests(node, Tail(tests), value, options, endEarly,
                IF o = "fail" THEN Append(nestedErrors, Head(tests))
                ELSE nestedErrors)

runTests(node, tests, value, options, endEarly, nestedErrors) ==
  IF tests = << >>
  THEN IF nestedErrors = << >> THEN Returned(value) ELSE Failed(value, nestedErrors)
  ELSE runTestsStep(RunTest(node, Head(tests), value, options),
                    node, tests, value, options, endEarly, nestedErrors)

(***************************************************************************)
(* _validate: the cast unless strict, the three tests of the node, and,    *)
(* when they raised no error, the test queue.                              *)
(***************************************************************************)
initialTests(node) ==
  (IF node.typeError # Undefined THEN <<TypeErrorTest>> ELSE << >>)
  \o (IF node.whitelistError THEN <<WhitelistTest>> ELSE << >>)
  \o (IF node.blacklistError THEN <<BlacklistTest>> ELSE << >>)

\* The callback of the first runTests call (mixed.ts:401-414).
_validateQueue(err, node, value, options, abortEarly) ==
  IF err.kind # "ok" THEN err
  ELSE runTests(node, node.tests, value, options, abortEarly, << >>)

\* _validate from the value the tests are run on.
_validateValue(node, value, options, abortEarly) ==
  _validateQueue(runTests(node, initialTests(node), value, options, abortEarly, << >>),
                 node, value, options, abortEarly)

_validate(node, _value, options) ==
  _validateValue(node,
                 IF ~ Option(options.strict, node.spec.strict)
                 THEN _cast(node, _value) ELSE _value,
                 options,
                 Option(options.abortEarly, node.spec.abortEarly))

validateResolved(x, value, options) ==
  IF x.err # "none" THEN Result(x, Raised(x.err, Undefined))
  ELSE Result(x, _validate(x.h.s[x.ret], value, options))

\* validate(value, options): the promise's outcome, or the error resolve threw.
validate(H, r, value, options) ==
  validateResolved(resolve(H, r, value, options), value, options)

validateSync(H, r, value, options) ==
  validate(H, r, value, [options EXCEPT !.sync = TRUE])

\* ValidationError.isError(err)
isError(err) == err.kind = "ValidationError"

\* The boolean of isValid, from the outcome of the validate call.
swallowAll(v) == IF v.kind = "ok" THEN Returned("true") ELSE Returned("false")

swallow(v) ==
  IF v.kind = "ok" THEN Returned("true")
  ELSE IF isError(v) THEN Returned("false")
  ELSE v

\* isValid on the outcome `x` of the validate call.
isValidOf(x) ==
  [h |-> x.h, ret |-> x.ret, out |-> swallow(x.out), inner |-> x.out]

isValid(H, r, value, options) == isValidOf(validate(H, r, value, options))

isValidSync(H, r, value, options) == isValidOf(validateSync(H, r, value, options))

(***************************************************************************)
(* The history of calls: the last two calls, each with what the receiver   *)
(* and the argument held before it and what they and the returned node     *)
(* hold after it.                                                          *)
(***************************************************************************)
NoOpts == TestConfig(NoName, FALSE, "none")

Entry(op, r, a, opts, val, res) ==
  [op |-> op, recv |-> r, arg |-> a, opts |-> opts, val |-> val,
   ret |-> res.ret, err |-> res.err,
   inWindow |-> \E i \in DOMAIN stack : stack[i].node = r,
   pre |-> View(Heap, r), argPre |-> View(Heap, a),
   post |-> View(res.h, res.ret),
   recvPost |-> View(res.h, r), argPost |-> View(res.h, a)]

Push(h, e) == IF Len(h) < 2 THEN Append(h, e) ELSE <<h[2], e>>

\* The last cast / validate / isValid call: its arguments, the node it worked
\* on after resolve, what it gave back, and for isValid what validate gave.
NoOut ==
  [op |-> "none", value |-> Undefined, options |-> NoOptions,
   node |-> MixedSchema("mixed", EmptyTable),
   result |-> Returned(Undefined), inner |-> Returned(Undefined)]

Out(op, value, options, res, inner) ==
  [op |-> op, value |-> value, options |-> options,
   node |-> View(res.h, res.ret), result |-> res.out, inner |-> inner]

\* No _validate call has been made: nothing started, the callback not called.
NoRun ==
  [phase |-> "idle", node |-> MixedSchema("mixed", EmptyTable),
   value |-> Undefined, options |-> NoOptions, abortEarly |-> TRUE,
   started |-> << >>, settled |-> {}, failed |-> << >>, thrown |-> FALSE,
   cbs |-> 0, result |-> Returned(Undefined)]

\* No withMutation call has ended.
NoneEnded ==
  [how |-> "none", node |-> 0, before |-> FALSE, after |-> FALSE,
   outermost |-> TRUE]

\* A builder call took place: the heap becomes the call's heap.
Commit(limit, op, r, a, opts, val, res) ==
  /\ calls < limit
  /\ calls' = calls + 1
  /\ schemas' = res.h.s
  /\ tables' = res.h.t
  /\ hist' = Push(hist, Entry(op, r, a, opts, val, res))
  /\ UNCHANGED <<stack, out, run, ended>>

\* A cast / validate / isValid call took place.  The nodes resolve() made are
\* referenced by nothing once the call is over: the heap keeps the nodes it had.
Query(limit, op, r, value, options, res, inner) ==
  /\ calls < limit
  /\ calls' = calls + 1
  /\ schemas' = SubSeq(res.h.s, 1, Len(schemas))
  /\ tables' = SubSeq(res.h.t, 1, Len(tables))
  /\ hist' = Push(hist, Entry(op, r, r, NoOpts, Undefined,
                               [h |-> res.h, ret |-> res.ret,
                                err |-> IF res.out.kind = "ok" THEN "none"
                                        ELSE res.out.kind]))
  /\ out' = Out(op, value, options, res, inner)
  /\ UNCHANGED <<stack, run, ended>>

\* The state after `create()`: one fresh node.
Init ==
  /\ schemas = <<MixedSchema("mixed", 1)>>
  /\ tables = <<EmptyTable>>
  /\ stack = << >>
  /\ hist = << >>
  /\ calls = 0
  /\ out = NoOut
  /\ run = NoRun
  /\ ended = NoneEnded

\* The node a chain of test() calls on a fresh node ends with, alone on the
\* heap (the nodes in between are no longer referenced).
Fresh == [s |-> <<MixedSchema("mixed", 1)>>, t |-> <<EmptyTable>>]

Only(res) ==
  [s |-> <<[res.h.s[res.ret] EXCEPT !.exclusive = 1]>>,
   t |-> <<res.h.t[res.h.s[res.ret].exclusive]>>]

SeedOpts ==
  {TestConfig("x", FALSE, "f1"), TestConfig("y", FALSE, "f2"),
   TestConfig("x", TRUE, "f2")}

Chain1 == {Only(test(Fresh, 1, o)) : o \in SeedOpts}
Chain2 == {Only(test(H, 1, TestConfig("y", FALSE, "f2"))) : H \in Chain1}

\* create().required().notRequired()
Optional == Only(notRequired(Only(required(Fresh, 1)), 1))

InitTests ==
  /\ \E H \in {Fresh, Optional} \cup Chain1 \cup Chain2 :
       schemas = H.s /\ tables = H.t
  /\ stack = << >>
  /\ hist = << >>
  /\ calls = 0
  /\ out = NoOut
  /\ run = NoRun
  /\ ended = NoneEnded

(***************************************************************************)
(* Test registration: test, required, notRequired and concat.              *)
(***************************************************************************)
Test(limit, r, name, exclusive, fn) ==
  Commit(limit, "test", r, r, TestConfig(name, exclusive, fn), Undefined,
         test(Heap, r, TestConfig(name, exclusive, fn)))

Required(limit, r) ==
  Commit(limit, "required", r, r, NoOpts, Undefined, required(Heap, r))

NotRequired(limit, r) ==
  Commit(limit, "notRequired", r, r, NoOpts, Undefined, notRequired(Heap, r))

Concat(limit, r, a) ==
  Commit(limit, "concat", r, a, NoOpts, Undefined, concat(Heap, r, a))

NextTests ==
  \/ \E r \in DOMAIN schemas, name \in {"x", "required", NoName},
        exclusive \in BOOLEAN, fn \in TestFns :
       Test(MaxCalls, r, name, exclusive, fn)
  \/ \E r \in DOMAIN schemas : Required(MaxCalls, r)
  \/ \E r \in DOMAIN schemas : NotRequired(MaxCalls, r)
  \/ \E r, a \in DOMAIN schemas : Concat(MaxCalls, r, a)

SpecTests == InitTests /\ [][NextTests]_vars

\* The tests of a queue registered under a name, in queue order.
Named(q, name) == LET Is(fn) == fn.name = name IN SelectSeq(q, Is)
NotNamed(q, name) == LET IsNot(fn) == fn.name # name IN SelectSeq(q, IsNot)

\* The last two calls were test() calls, the second on the node the first returned.
TwoTests ==
  /\ Len(hist) = 2
  /\ hist[1].op = "test" /\ hist[1].err = "none"
  /\ hist[2].op = "test" /\ hist[2].err = "none"
  /\ hist[2].recv = hist[1].ret
  /\ hist[2].opts.name = hist[1].opts.name

TwoExclusive ==
  /\ TwoTests
  /\ hist[1].opts.exclusive /\ hist[2].opts.exclusive

\* C1: two exclusive registrations under one name x leave exactly one test
\* named x in the queue, the second one, and keep the tests of other names in
\* the order they had before the first registration.
C1_ExclusiveReplacement ==
  TwoExclusive =>
    LET x == hist[2].opts.name
        q == hist[2].post.tests
    IN /\ Named(q, x) = <<hist[2].opts>>
       /\ NotNamed(q, x) = NotNamed(hist[1].pre.tests, x)

C1_Witness ==
  /\ TwoExclusive
  /\ hist[1].opts.test # hist[2].opts.test
  /\ Named(hist[1].pre.tests, hist[1].opts.name) # << >>
  /\ NotNamed(hist[1].pre.tests, hist[1].opts.name) # << >>

TwoStacked ==
  /\ TwoTests
  /\ hist[1].opts.name # NoName
  /\ ~ hist[1].opts.exclusive /\ ~ hist[2].opts.exclusive
  /\ hist[1].opts.test # hist[2].opts.test
  /\ Named(hist[1].pre.tests, hist[1].opts.name) = << >>

\* C2: on a schema with no test named y, two non-exclusive registrations under
\* y of different functions leave both tests in the queue, the first before
\* the second.
C2_NonExclusiveStacking ==
  TwoStacked =>
    Named(hist[2].post.tests, hist[2].opts.name) = <<hist[1].opts, hist[2].opts>>

C2_Witness ==
  /\ TwoStacked
  /\ hist[1].pre.exclusive[hist[1].opts.name] = "true"

TwoIdentical ==
  /\ TwoTests
  /\ hist[1].opts = hist[2].opts

\* C3: registering the same function twice under the same name changes
\* nothing the second time: the queue and the exclusivity table after the
\* second registration are those after the first, and the queue holds the
\* function once under that name.
C3_IdempotentReRegistration ==
  TwoIdentical =>
    LET o == hist[2].opts
        q == hist[2].post.tests
    IN /\ q = hist[1].post.tests
       /\ hist[2].post.exclusive = hist[1].post.exclusive
       /\ Cardinality({i \in DOMAIN q : q[i].name = o.name /\ q[i].test = o.test}) = 1

C3_Witness ==
  /\ TwoIdentical
  /\ ~ hist[1].opts.exclusive
  /\ Len(hist[2].post.tests) >= 2
  /\ \E i \in DOMAIN hist[1].pre.tests :
       /\ hist[1].pre.tests[i].name = hist[1].opts.name
       /\ hist[1].pre.tests[i].test = hist[1].opts.test
       /\ i < Len(hist[1].pre.tests)

(***************************************************************************)
(* withMutation(fn): the calls `fn` makes are the steps taken between the  *)
(* call's entry and its end.  A frame of `stack` is a call in progress:    *)
(* the node and the flag saved on entry (mixed.ts:225).                    *)
(***************************************************************************)
Enter(depth, n) ==
  /\ Len(stack) < depth
  /\ stack' = Append(stack, [node |-> n, before |-> schemas[n].mutate])
  /\ schemas' = [schemas EXCEPT ![n].mutate = TRUE]
  /\ UNCHANGED <<tables, hist, calls, out, run, ended>>

WithMutationEnter(n) == Enter(MaxDepth, n)

\* The call of frame f has ended: the flag it saved, the flag the node has
\* now, and whether another call on the node is still in progress.
Ended(f, how, flag, rest) ==
  [how |-> how, node |-> f.node, before |-> f.before, after |-> flag,
   outermost |-> \A i \in DOMAIN rest : rest[i].node # f.node]

WithMutationReturnClears ==
  /\ stack # << >>
  /\ schemas' = [schemas EXCEPT ![stack[Len(stack)].node].mutate = FALSE]
  /\ stack' = SubSeq(stack, 1, Len(stack) - 1)
  /\ ended' = Ended(stack[Len(stack)], "return",
                    schemas'[stack[Len(stack)].node].mutate, stack')
  /\ UNCHANGED <<tables, hist, calls, out, run>>

\* fn returned: the saved flag is put back (mixed.ts:228).
WithMutationReturn ==
  /\ stack # << >>
  /\ schemas' = [schemas EXCEPT ![stack[Len(stack)].node].mutate =
                                   stack[Len(stack)].before]
  /\ stack' = SubSeq(stack, 1, Len(stack) - 1)
  /\ ended' = Ended(stack[Len(stack)], "return",
                    schemas'[stack[Len(stack)].node].mutate, stack')
  /\ UNCHANGED <<tables, hist, calls, out, run>>

\* fn threw: the call is left at mixed.ts:227 and the flag is not put back.
WithMutationThrow ==
  /\ stack # << >>
  /\ stack' = SubSeq(stack, 1, Len(stack) - 1)
  /\ ended' = Ended(stack[Len(stack)], "throw",
                    schemas[stack[Len(stack)].node].mutate, stack')
  /\ UNCHANGED <<schemas, tables, hist, calls, out, run>>

(***************************************************************************)
(* The mutators, called on any node of the heap, inside and outside        *)
(* batch-mutation windows.                                                 *)
(***************************************************************************)
Call(limit, op, r, res) == Commit(limit, op, r, r, NoOpts, Undefined, res)

Label(limit, r) == Call(limit, "label", r, label(Heap, r, "l"))
Meta(limit, r) == Call(limit, "meta", r, meta(Heap, r, {"k"}))
Nullable(limit, r) == Call(limit, "nullable", r, nullable(Heap, r, TRUE))
Default(limit, r, def) == Call(limit, "default", r, default(Heap, r, def))
Strict(limit, r) == Call(limit, "strict", r, strict(Heap, r, TRUE))
Strip(limit, r) == Call(limit, "strip", r, strip(Heap, r, TRUE))
Transform(limit, r, fn) == Call(limit, "transform", r, transform(Heap, r, fn))
When(limit, r, key, options) ==
  Call(limit, "when", r, when(Heap, r, key, options))
TypeError(limit, r) == Call(limit, "typeError", r, typeError(Heap, r, "m"))
OneOf(limit, r, enums) == Call(limit, "oneOf", r, oneOf(Heap, r, enums))
NotOneOf(limit, r, enums) == Call(limit, "notOneOf", r, notOneOf(Heap, r, enums))

Mutators ==
  {"label", "meta", "nullable", "default", "strict", "strip", "transform",
   "test", "when", "oneOf", "notOneOf", "notRequired", "typeError"}

NextMutators ==
  \/ \E r \in DOMAIN schemas : Label(MaxCalls, r)
  \/ \E r \in DOMAIN schemas : Meta(MaxCalls, r)
  \/ \E r \in DOMAIN schemas : Nullable(MaxCalls, r)
  \/ \E r \in DOMAIN schemas : Default(MaxCalls, r, [fn |-> FALSE, v |-> "1"])
  \/ \E r \in DOMAIN schemas : Strict(MaxCalls, r)
  \/ \E r \in DOMAIN schemas : Strip(MaxCalls, r)
  \/ \E r \in DOMAIN schemas : Transform(MaxCalls, r, "toNumber")
  \/ \E r \in DOMAIN schemas, exclusive \in BOOLEAN :
       Test(MaxCalls, r, "x", exclusive, "f1")
  \/ \E r \in DOMAIN schemas :
       When(MaxCalls, r, "d", [is |-> "1", then |-> "required"])
  \/ \E r \in DOMAIN schemas : OneOf(MaxCalls, r, {Lit("1")})
  \/ \E r \in DOMAIN schemas : NotOneOf(MaxCalls, r, {Lit("1")})
  \/ \E r \in DOMAIN schemas : NotRequired(MaxCalls, r)
  \/ \E r \in DOMAIN schemas : TypeError(MaxCalls, r)
  \/ \E r, a \in DOMAIN schemas : Concat(MaxCalls, r, a)
  \/ \E n \in DOMAIN schemas : WithMutationEnter(n)
  \/ WithMutationReturn
  \/ WithMutationThrow

SpecMutators == InitTests /\ [][NextMutators]_vars

\* The fields of a node the builder calls set.
Fields(v) ==
  [spec |-> v.spec, tests |-> v.tests, transforms |-> v.transforms,
   exclusive |-> v.exclusive, whitelist |-> v.whitelist,
   blacklist |-> v.blacklist, conditions |-> v.conditions, deps |-> v.deps,
   label |-> v.label, meta |-> v.meta]

\* Call k of the history is a mutator call that returned.
MutatorCall(k) ==
  /\ Len(hist) >= k
  /\ hist[k].op \in Mutators
  /\ hist[k].err = "none"

\* Call k returned another node and left the receiver's fields as they were,
\* and so did the next call if it was a mutator call on the returned node.
LeavesReceiver(k) ==
  /\ hist[k].ret # hist[k].recv
  /\ Fields(hist[k].recvPost) = Fields(hist[k].pre)
  /\ (k = 1 /\ MutatorCall(2) /\ hist[2].recv = hist[1].ret)
       => Fields(View(Heap, hist[1].recv)) = Fields(hist[1].pre)

\* C4: a mutator called on a node that is not inside a batch-mutation window
\* (no withMutation call on the node is in progress) returns another node and
\* leaves the receiver's fields as they were, and a further mutator call on
\* the returned node leaves them so too.
C4_MutatorsLeaveReceiver ==
  \A k \in DOMAIN hist :
    (MutatorCall(k) /\ ~ hist[k].inWindow) => LeavesReceiver(k)

\* What holds instead: the same for the calls on a node whose batch flag is
\* not set.
MutatorsLeaveUnflaggedReceiver ==
  \A k \in DOMAIN hist :
    (MutatorCall(k) /\ ~ hist[k].pre.mutate) => LeavesReceiver(k)

(***************************************************************************)
(* Defaults and concat.  The heap starts with `create()` and               *)
(* `create().default("1")`.                                                *)
(***************************************************************************)
Value(v) == [fn |-> FALSE, v |-> v]
Factory(v) == [fn |-> TRUE, v |-> v]

InitDefault ==
  /\ LET H == default(Fresh, 1, Value("1")).h
     IN schemas = H.s /\ tables = H.t
  /\ stack = << >>
  /\ hist = << >>
  /\ calls = 0
  /\ out = NoOut
  /\ run = NoRun
  /\ ended = NoneEnded

NextDefault ==
  \/ \E r \in DOMAIN schemas, def \in {Value(Undefined), Value("2"), Factory("1")} :
       Default(MaxCalls + 1, r, def)
  \/ \E r, a \in DOMAIN schemas : Concat(MaxCalls + 1, r, a)

SpecDefault == InitDefault /\ [][NextDefault]_vars

\* The last call was A.concat(B), with A holding an explicitly set default.
ConcatOnDefault ==
  /\ hist # << >>
  /\ hist[Len(hist)].op = "concat"
  /\ hist[Len(hist)].err = "none"
  /\ hist[Len(hist)].pre.explicit

\* C5: A.concat(B), where A's default a was explicitly set, has default a when
\* B's default was never set and default b when B's default was set to b.
C5_ConcatDefaultPrecedence ==
  ConcatOnDefault =>
    LET e == hist[Len(hist)]
    IN e.post.spec.default =
         IF e.argPre.explicit THEN e.argPre.spec.default ELSE e.pre.spec.default

\* The cases of C5 where B's own hasDefault tells whether its default was set:
\* B.hasDefault gives B's default, and a B whose default is undefined and not
\* flagged gives A's.
ConcatDefaultByFlag ==
  ConcatOnDefault =>
    LET e == hist[Len(hist)]
    IN e.post.spec.default =
         IF e.argPre.spec.hasDefault \/ e.argPre.spec.default # NoDefault
         THEN e.argPre.spec.default ELSE e.pre.spec.default

(***************************************************************************)
(* oneOf and notOneOf with literal values, and validate.                   *)
(***************************************************************************)
Validate(limit, r, value, options) ==
  Query(limit, "validate", r, value, options,
        validate(Heap, r, value, options), Returned(Undefined))

ValidateSync(limit, r, value, options) ==
  Query(limit, "validateSync", r, value, options,
        validateSync(Heap, r, value, options), Returned(Undefined))

Enums == {{Lit("1")}, {Lit("2")}, {Lit("1"), Lit("2")}, {Lit(Undefined)}}

AbortEarly(b) == [NoOptions EXCEPT !.abortEarly = b]

NextLists ==
  \/ \E r \in DOMAIN schemas, enums \in Enums : OneOf(MaxCalls + 1, r, enums)
  \/ \E r \in DOMAIN schemas, enums \in Enums : NotOneOf(MaxCalls + 1, r, enums)
  \/ \E r \in DOMAIN schemas, value \in {"1", "2", Undefined},
        abortEarly \in {Undefined, "false"} :
       Validate(MaxCalls + 1, r, value, AbortEarly(abortEarly))

SpecLists == Init /\ [][NextLists]_vars

Rejects(i, v) ==
  \A abortEarly \in {Undefined, "false"}, isStrict \in {Undefined, "true"} :
    validate(Heap, i, v, [AbortEarly(abortEarly) EXCEPT !.strict = isStrict]).out.kind
      = "ValidationError"

\* C6: after oneOf and notOneOf calls the last call that mentioned a literal
\* value decides: mentioned last by notOneOf, the value is in the blacklist,
\* not in the whitelist, and validate rejects it; mentioned last by oneOf, it
\* is in the whitelist, not in the blacklist, and passes the oneOf and the
\* notOneOf test.
C6_LastWriterWins ==
  \A i \in DOMAIN schemas, v \in Values :
    LET node == schemas[i]
    IN /\ node.mention[v] = "notOneOf" =>
            /\ v \in node.blacklist.list
            /\ v \notin node.whitelist.list
            /\ Rejects(i, v)
       /\ node.mention[v] = "oneOf" =>
            /\ v \in node.whitelist.list
            /\ v \notin node.blacklist.list
            /\ RunTest(node, WhitelistTest, v, NoOptions) = "pass"
            /\ RunTest(node, BlacklistTest, v, NoOptions) = "pass"

\* oneOf(["1", "2"]) then notOneOf(["2"]) (or the like): validate rejected the
\* value taken out again.
C6_Witness ==
  /\ out.op = "validate"
  /\ out.node.mention[out.value] = "notOneOf"
  /\ \E v \in Values : out.node.mention[v] = "oneOf"
  /\ out.node.whitelistError
  /\ out.result.kind = "ValidationError"
  /\ out.result.errors = <<WhitelistTest>>

(***************************************************************************)
(* validate with abortEarly, on a mixed node and on a node of another      *)
(* kind, whose type check rejects values.                                  *)
(***************************************************************************)
InitTyped ==
  /\ schemas = <<MixedSchema("mixed", 1), MixedSchema("number", 2)>>
  /\ tables = <<EmptyTable, EmptyTable>>
  /\ stack = << >>
  /\ hist = << >>
  /\ calls = 0
  /\ out = NoOut
  /\ run = NoRun
  /\ ended = NoneEnded

NextValidate ==
  \/ \E r \in DOMAIN schemas, name \in TestNames, fn \in TestFns :
       Test(MaxCalls + 1, r, name, FALSE, fn)
  \/ \E r \in DOMAIN schemas : OneOf(MaxCalls + 1, r, {Lit("1")})
  \/ \E r \in DOMAIN schemas : NotOneOf(MaxCalls + 1, r, {Lit("2")})
  \/ \E r \in DOMAIN schemas, value \in {"1", "2", "a"},
        abortEarly \in {Undefined, "false"} :
       Validate(MaxCalls + 1, r, value, AbortEarly(abortEarly))
  \/ \E r \in DOMAIN schemas, value \in {"1", "2", "a"},
        abortEarly \in {Undefined, "false"} :
       ValidateSync(MaxCalls + 1, r, value, AbortEarly(abortEarly))

SpecValidate == InitTyped /\ [][NextValidate]_vars

\* The value the tests of the last validate call were run on.
Validated ==
  IF Option(out.options.strict, out.node.spec.strict) THEN out.value
  ELSE _cast(out.node, out.value)

\* The tests among `tests` that fail on the validated value, in order.
Failing(tests) ==
  SelectSeq(tests, LAMBDA t : RunTest(out.node, t, Validated, out.options) = "fail")

\* C7: with abortEarly = false validate runs the typeError, oneOf and
\* notOneOf tests and every test of the queue, and fails with one error that
\* holds one entry per failing test, the queue's entries in registration
\* order; no failing test is left out.
C7_AbortEarlyFalseRunsEveryTest ==
  (out.op \in {"validate", "validateSync"} /\ out.options.abortEarly = "false") =>
    LET failing == Failing(initialTests(out.node) \o out.node.tests)
    IN out.result = IF failing = << >> THEN Returned(Validated)
                    ELSE Failed(Validated, failing)

\* What the code does instead: a failure among the first three tests ends the
\* call, and the queue is run only when they pass.
AbortEarlyFalseRunsBatchThenQueue ==
  (out.op \in {"validate", "validateSync"} /\ out.options.abortEarly = "false") =>
    LET first == Failing(initialTests(out.node))
        queue == Failing(out.node.tests)
    IN out.result = IF first # << >> THEN Failed(Validated, first)
                    ELSE IF queue # << >> THEN Failed(Validated, queue)
                    ELSE Returned(Validated)

(***************************************************************************)
(* Conditions and the calls that resolve them, inside and outside          *)
(* batch-mutation windows.                                                 *)
(***************************************************************************)
Cast(limit, r, value, options) ==
  Query(limit, "cast", r, value, options,
        cast(Heap, r, value, options), Returned(Undefined))

GetDefault(limit, r, options) ==
  Query(limit, "getDefault", r, Undefined, options,
        getDefault(Heap, r, options), Returned(Undefined))

Sibling(d) == [NoOptions EXCEPT !.d = d]

Resolvers == {"cast", "validate", "validateSync", "getDefault"}

NextResolve ==
  \/ \E r \in DOMAIN schemas, key \in {"d", "."}, then \in {"required", "throw"} :
       When(MaxCalls, r, key, [is |-> "1", then |-> then])
  \/ \E r \in DOMAIN schemas, value \in {"1", "a"}, d \in {Undefined, "1"} :
       Cast(MaxCalls, r, value, Sibling(d))
  \/ \E r \in DOMAIN schemas, value \in {"1", "a"}, d \in {Undefined, "1"} :
       Validate(MaxCalls, r, value, Sibling(d))
  \/ \E r \in DOMAIN schemas, value \in {"1", "a"}, d \in {Undefined, "1"} :
       ValidateSync(MaxCalls, r, value, Sibling(d))
  \/ \E r \in DOMAIN schemas, d \in {Undefined, "1"} :
       GetDefault(MaxCalls, r, Sibling(d))
  \/ \E n \in DOMAIN schemas : WithMutationEnter(n)
  \/ WithMutationReturn
  \/ WithMutationThrow

SpecResolve == Init /\ [][NextResolve]_vars

\* Call k of the history resolved a node with pending conditions.
ResolverCall(k) ==
  /\ Len(hist) >= k
  /\ hist[k].op \in Resolvers
  /\ hist[k].pre.conditions # << >>

\* C8: a cast, validate, validateSync or getDefault call on a node with
\* pending conditions leaves the node's conditions, tests, spec and other
\* fields as they were, in every state the node can be in.
C8_ResolveLeavesReceiver ==
  \A k \in DOMAIN hist :
    ResolverCall(k) => Fields(hist[k].recvPost) = Fields(hist[k].pre)

\* What holds instead: the same for the calls on a node whose batch flag is
\* not set.
ResolveLeavesUnflaggedReceiver ==
  \A k \in DOMAIN hist :
    (ResolverCall(k) /\ ~ hist[k].pre.mutate) =>
       Fields(hist[k].recvPost) = Fields(hist[k].pre)

(***************************************************************************)
(* isValid and isValidSync, with tests that fail, tests that throw, tests  *)
(* that answer later, and conditions whose branch throws.                  *)
(***************************************************************************)
IsValidCall(limit, op, r, value, options, x) ==
  Query(limit, op, r, value, options, x, x.inner)

IsValid(limit, r, value, options) ==
  IsValidCall(limit, "isValid", r, value, options,
              isValid(Heap, r, value, options))

IsValidSync(limit, r, value, options) ==
  IsValidCall(limit, "isValidSync", r, value, options,
              isValidSync(Heap, r, value, options))

NextIsValid ==
  \/ \E r \in DOMAIN schemas, fn \in {"f1", "boom", "later"} :
       Test(MaxCalls + 1, r, "x", FALSE, fn)
  \/ \E r \in DOMAIN schemas, then \in {"required", "throw"} :
       When(MaxCalls + 1, r, "d", [is |-> "1", then |-> then])
  \/ \E r \in DOMAIN schemas, value \in {"1", "a", Undefined}, d \in {Undefined, "1"} :
       IsValid(MaxCalls + 1, r, value, Sibling(d))
  \/ \E r \in DOMAIN schemas, value \in {"1", "a", Undefined}, d \in {Undefined, "1"} :
       IsValidSync(MaxCalls + 1, r, value, Sibling(d))

SpecIsValid == Init /\ [][NextIsValid]_vars

\* The options the validation of the last call ran with.
RunOptions == [out.options EXCEPT !.sync = (out.op = "isValidSync")]

\* C9: isValid and isValidSync return true when the validation succeeds (no
\* test of the resolved node fails), return false when it fails with a
\* ValidationError, and raise again, unchanged, every other error.
C9_OnlyValidationErrorSwallowed ==
  out.op \in {"isValid", "isValidSync"} =>
    /\ out.inner.kind = "ok" =>
         /\ out.result = Returned("true")
         /\ \A i \in DOMAIN out.node.tests :
              RunTest(out.node, out.node.tests[i], Validated, RunOptions) = "pass"
    /\ out.inner.kind = "ValidationError" =>
         /\ out.result = Returned("false")
         /\ \E t \in {out.inner.errors[i] : i \in DOMAIN out.inner.errors} :
              RunTest(out.node, t, Validated, RunOptions) = "fail"
    /\ out.inner.kind \notin {"ok", "ValidationError"} =>
         /\ out.result = out.inner
         /\ out.result.kind = "Error"

\* isValidSync on a node with a test that answers later: the usage error is
\* raised again.
C9_Witness ==
  /\ out.op = "isValidSync"
  /\ \E i \in DOMAIN out.node.tests : out.node.tests[i].test = "later"
  /\ out.inner.kind = "Error"
  /\ out.result = out.inner

(***************************************************************************)
(* cast, with transforms, defaults and nullable, on a mixed node and on a  *)
(* node whose type check rejects values.                                   *)
(***************************************************************************)
Asserting(a) == [NoOptions EXCEPT !.assert = a]

NextCast ==
  \/ \E r \in DOMAIN schemas, fn \in TransformFns : Transform(MaxCalls, r, fn)
  \/ \E r \in DOMAIN schemas, def \in {Value("a"), Value("1")} :
       Default(MaxCalls, r, def)
  \/ \E r \in DOMAIN schemas : Nullable(MaxCalls, r)
  \/ \E r \in DOMAIN schemas, value \in Values, a \in {Undefined, "false"} :
       Cast(MaxCalls + 1, r, value, Asserting(a))

SpecCast == InitTyped /\ [][NextCast]_vars

\* The last call was a cast whose cast result the node's isType rejects.
CastRejected ==
  /\ out.op = "cast"
  /\ ~ isType(out.node, _cast(out.node, out.value))

\* C10: for every raw value, undefined or not, cast raises a type error when
\* options.assert is not false and isType rejects the cast result; when
\* options.assert is false it raises none and returns the cast result.
C10_CastAssertsType ==
  out.op = "cast" =>
    LET result == _cast(out.node, out.value)
    IN out.result = IF out.options.assert # "false" /\ CastRejected
                    THEN Raised("TypeError", result)
                    ELSE Returned(result)

\* C10 as amended: that for every raw value other than undefined; for the raw
\* value undefined, as when options.assert is false, cast raises no type
\* error and returns the cast result.
C10_CastAssertsTypeOfDefined ==
  out.op = "cast" =>
    LET result == _cast(out.node, out.value)
    IN out.result = IF /\ out.value # Undefined
                       /\ out.options.assert # "false"
                       /\ CastRejected
                    THEN Raised("TypeError", result)
                    ELSE Returned(result)

\* cast(undefined) on a node whose default is not of its type: the default is
\* returned and no type error raised.
C10_Witness ==
  /\ CastRejected
  /\ out.value = Undefined
  /\ out.options.assert # "false"
  /\ out.node.spec.hasDefault
  /\ out.result = Returned(out.node.spec.default.v)

(***************************************************************************)
(* null and the type check: nullable, cast and validate on a mixed node    *)
(* and on a node of another kind.                                          *)
(***************************************************************************)
NextNull ==
  \/ \E r \in DOMAIN schemas : Nullable(MaxCalls, r)
  \/ \E r \in DOMAIN schemas, value \in {Null, "1", "a"}, a \in {Undefined, "false"} :
       Cast(MaxCalls + 1, r, value, Asserting(a))
  \/ \E r \in DOMAIN schemas, value \in {Null, "1", "a"},
        abortEarly \in {Undefined, "false"} :
       Validate(MaxCalls + 1, r, value, AbortEarly(abortEarly))

SpecNull == InitTyped /\ [][NextNull]_vars

\* C11: on a node with nullable = false, isType(null) is false, so
\* cast(null) raises the type error and validate(null) fails with the
\* typeError test.
C11_NullOnlyIfNullable ==
  (out.value = Null /\ ~ out.node.spec.nullable) =>
       /\ out.op # "none" => ~ isType(out.node, Null)
       /\ (out.op = "cast" /\ out.options.assert # "false") =>
            out.result.kind = "TypeError"
       /\ out.op = "validate" =>
            /\ out.result.kind = "ValidationError"
            /\ out.result.errors = <<TypeErrorTest>>

\* What holds instead: null is rejected by the nodes of a kind whose own type
\* check rejects it, and by no mixed node.
NullOnlyIfNullableOrMixed ==
  /\ \A i \in DOMAIN schemas :
       isType(schemas[i], Null) <=>
         (schemas[i].spec.nullable \/ schemas[i].type = "mixed")
  /\ (out.value = Null /\ out.op = "cast") =>
       (out.result.kind = "TypeError" <=>
          /\ out.options.assert # "false"
          /\ ~ out.node.spec.nullable
          /\ out.node.type # "mixed")

(***************************************************************************)
(* Exclusive tests over test, required, defined, notRequired and concat,   *)
(* on the nodes built so far, receivers of earlier concat calls included.  *)
(***************************************************************************)
Defined(limit, r) ==
  Commit(limit, "defined", r, r, NoOpts, Undefined, defined(Heap, r))

NextExclusive ==
  \/ \E r \in DOMAIN schemas, exclusive \in BOOLEAN, fn \in TestFns :
       Test(MaxCalls + 1, r, "x", exclusive, fn)
  \/ \E r \in DOMAIN schemas : Required(MaxCalls + 1, r)
  \/ \E r \in DOMAIN schemas : Defined(MaxCalls + 1, r)
  \/ \E r \in DOMAIN schemas : NotRequired(MaxCalls + 1, r)
  \/ \E r, a \in DOMAIN schemas : Concat(MaxCalls + 1, r, a)

SpecExclusive == InitTests /\ [][NextExclusive]_vars

\* C12: in every node built by test, required, defined, notRequired and
\* concat calls, a test of the queue that was registered with exclusive: true
\* under a name is the only test of that name in the queue.
C12_ExclusiveTestIsAlone ==
  \A n \in DOMAIN schemas :
    \A i, j \in DOMAIN schemas[n].tests :
      (schemas[n].tests[i].exclusive /\ i # j) =>
         schemas[n].tests[j].name # schemas[n].tests[i].name

\* The last call was A.concat(B) on two nodes, and it returned.
ConcatCall(k) ==
  /\ Len(hist) >= k
  /\ hist[k].op = "concat"
  /\ hist[k].err = "none"
  /\ hist[k].arg # hist[k].recv

\* C14: A.concat(B) leaves the tests, exclusivity table, whitelist, blacklist
\* and spec of A and of B as they were, and so does a later call on the node
\* it returned.
C14_ConcatWorksOnCopies ==
  \A k \in DOMAIN hist :
    ConcatCall(k) =>
      /\ Fields(hist[k].recvPost) = Fields(hist[k].pre)
      /\ Fields(hist[k].argPost) = Fields(hist[k].argPre)
      /\ (k = 1 /\ Len(hist) = 2 /\ hist[2].recv = hist[1].ret) =>
           /\ Fields(View(Heap, hist[1].recv)) = Fields(hist[1].pre)
           /\ Fields(View(Heap, hist[1].arg)) = Fields(hist[1].argPre)

\* C13: in every node built by default(v) and concat calls, spec.hasDefault
\* is true exactly when the node's default was set explicitly, by default(v)
\* on it or on a node whose default it carries through concat.
C13_HasDefaultIffExplicit ==
  \A n \in DOMAIN schemas : schemas[n].spec.hasDefault <=> schemas[n].explicit

\* What holds instead: a node with hasDefault carries an explicitly set
\* default.
HasDefaultOnlyIfExplicit ==
  \A n \in DOMAIN schemas : schemas[n].spec.hasDefault => schemas[n].explicit

(***************************************************************************)
(* _validate, test by test.  `run` is the call in progress: the tests      *)
(* started so far, each with the batch it belongs to ("initial": the       *)
(* typeError, oneOf and notOneOf tests; "queue": the tests of the node),   *)
(* the started tests that have settled, the failures of the current batch  *)
(* in the order they were reported, and the calls of the completion        *)
(* callback `cb`.  runTests (./util/runTests) starts every test of its     *)
(* batch and calls its callback once all of them have settled; in a        *)
(* synchronous run it drives the tests one by one and stops at the first   *)
(* failure when endEarly is set.                                           *)
(***************************************************************************)
StartedTest(tag, t) == [tag |-> tag, test |-> t]

\* The started tests that have not settled.
Pending(u) == {i \in DOMAIN u.started : i \notin u.settled}

\* The tests of the batch in progress.
BatchTests(u) ==
  IF u.phase = "initial" THEN initialTests(u.node) ELSE u.node.tests

\* The tests of the batch in progress that were started.
BatchStarted(u) == SelectSeq(u.started, LAMBDA e : e.tag = u.phase)

\* The failures of the batch, in the order the tests were started.
FailedInOrder(u) ==
  LET idx == SelectSeq([i \in DOMAIN u.started |-> i],
                       LAMBDA i : \E k \in DOMAIN u.failed : u.failed[k] = i)
  IN [k \in DOMAIN idx |-> u.started[idx[k]].test]

\* What runTests hands to its callback when the batch is over.
batchResult(u) ==
  IF u.thrown THEN Raised("Error", u.value)
  ELSE IF u.failed = << >> THEN Returned(u.value)
  ELSE IF u.abortEarly THEN Failed(u.value, <<u.started[u.failed[1]].test>>)
  ELSE Failed(u.value, FailedInOrder(u))

\* The completion callback of _validate is called.
cb(u, res) == [u EXCEPT !.phase = "done", !.cbs = @ + 1, !.result = res]

\* runTests is called on a batch: without tests its callback is called at
\* once; an asynchronous run starts every test of the batch.
startBatch(u, tag, tests) ==
  [u EXCEPT !.phase = tag,
            !.failed = << >>,
            !.thrown = FALSE,
            !.started = IF u.options.sync THEN @
                        ELSE @ \o [i \in DOMAIN tests |-> StartedTest(tag, tests[i])]]

\* The second runTests call (mixed.ts:404-414): its callback is cb.
startQueue(u) ==
  IF u.node.tests = << >> THEN cb(u, Returned(u.value))
  ELSE startBatch(u, "queue", u.node.tests)

afterInitialFallsThrough(u, err) ==
  IF err.kind # "ok" THEN startQueue(cb(u, err)) ELSE startQueue(u)

\* The callback of the first runTests call (mixed.ts:400-414).
afterInitial(u, err) ==
  IF err.kind # "ok" THEN cb(u, err) ELSE startQueue(u)

\* The batch in progress is over.
afterBatch(u, res) ==
  IF u.phase = "initial" THEN afterInitial(u, res) ELSE cb(u, res)

\* The first runTests call (mixed.ts:392-399).
startInitial(u) ==
  IF initialTests(u.node) = << >> THEN afterInitial(u, Returned(u.value))
  ELSE startBatch(u, "initial", initialTests(u.node))

\* The outcome `o` of a test is recorded for started test `i`.
recorded(u, i, o) ==
  [u EXCEPT !.settled = @ \cup {i},
            !.failed = IF o = "fail" THEN Append(@, i) ELSE @,
            !.thrown = @ \/ o = "throw"]

\* Asynchronous run: after a test has settled, the batch is over when no
\* started test is pending.
settledAsync(u) ==
  IF Pending(u) = {} THEN afterBatch(u, batchResult(u)) ELSE u

settle(u, i) ==
  settledAsync(recorded(u, i, RunTest(u.node, u.started[i].test, u.value, u.options)))

\* Synchronous run: after test number k of the batch, with outcome o, the
\* batch is over at an error, at a failure when endEarly is set, and at the
\* last test.
settledSync(u, k, o) ==
  IF o = "throw" \/ (o = "fail" /\ u.abortEarly) \/ k = Len(BatchTests(u))
  THEN afterBatch(u, batchResult(u))
  ELSE u

runNext(u, k, t, o) ==
  settledSync(recorded([u EXCEPT !.started = Append(@, StartedTest(u.phase, t))],
                       Len(u.started) + 1, o),
              k, o)

stepSync(u, k) ==
  runNext(u, k, BatchTests(u)[k],
          RunTest(u.node, BatchTests(u)[k], u.value, u.options))

\* _validate is entered (mixed.ts:354-399) on the node resolve gave.
enter(node, _value, options) ==
  startInitial([NoRun EXCEPT
     !.node = node,
     !.value = IF ~ Option(options.strict, node.spec.strict)
               THEN _cast(node, _value) ELSE _value,
     !.options = options,
     !.abortEarly = Option(options.abortEarly, node.spec.abortEarly)])

ValidateEntered(x, value, options) ==
  /\ x.err = "none"
  /\ schemas' = SubSeq(x.h.s, 1, Len(schemas))
  /\ tables' = SubSeq(x.h.t, 1, Len(tables))
  /\ run' = enter(View(x.h, x.ret), value, options)

\* validate / validateSync is called while no _validate call is in progress.
ValidateStart(limit, r, value, options) ==
  /\ run.phase \in {"idle", "done"}
  /\ calls < limit
  /\ calls' = calls + 1
  /\ ValidateEntered(resolve(Heap, r, value, options), value, options)
  /\ UNCHANGED <<stack, hist, out, ended>>

\* A pending test of an asynchronous run settles.
TestSettle(i) ==
  /\ run.phase \in {"initial", "queue"}
  /\ ~ run.options.sync
  /\ i \in Pending(run)
  /\ run' = settle(run, i)
  /\ UNCHANGED <<schemas, tables, stack, hist, calls, out, ended>>

\* The next test of a synchronous run is run.
TestRunSync ==
  /\ run.phase \in {"initial", "queue"}
  /\ run.options.sync
  /\ run' = stepSync(run, Len(BatchStarted(run)) + 1)
  /\ UNCHANGED <<schemas, tables, stack, hist, calls, out, ended>>

RunOptionsOf(sync, abortEarly) ==
  [NoOptions EXCEPT !.sync = sync, !.abortEarly = abortEarly]

NextRun ==
  \/ \E r \in DOMAIN schemas, name \in TestNames, fn \in {"f1", "boom"} :
       Test(MaxCalls, r, name, FALSE, fn)
  \/ \E r \in DOMAIN schemas : OneOf(MaxCalls, r, {Lit("2")})
  \/ \E r \in DOMAIN schemas : NotOneOf(MaxCalls, r, {Lit("1")})
  \/ \E r \in DOMAIN schemas, value \in {"1", "a"}, sync \in BOOLEAN,
        abortEarly \in {Undefined, "false"} :
       ValidateStart(MaxCalls + 1, r, value, RunOptionsOf(sync, abortEarly))
  \/ \E i \in DOMAIN run.started : TestSettle(i)
  \/ TestRunSync

SpecRun == InitTyped /\ [][NextRun]_vars

\* The started tests of a batch, in the order they were started.
StartedOf(tag) ==
  LET sel == SelectSeq(run.started, LAMBDA e : e.tag = tag)
  IN [k \in DOMAIN sel |-> sel[k].test]

IsPrefix(p, q) == Len(p) <= Len(q) /\ \A k \in DOMAIN p : p[k] = q[k]

\* A test of the first batch has failed.
InitialFailed ==
  \E i \in run.settled :
    /\ run.started[i].tag = "initial"
    /\ RunTest(run.node, run.started[i].test, run.value, run.options) = "fail"

\* The first batch is started in the order typeError, oneOf, notOneOf, and a
\* test of the queue is started only when every test of the first batch has
\* settled.
BatchBeforeQueue ==
  /\ IsPrefix(StartedOf("initial"), initialTests(run.node))
  /\ IsPrefix(StartedOf("queue"), run.node.tests)
  /\ \A i, j \in DOMAIN run.started :
       (run.started[i].tag = "queue" /\ run.started[j].tag = "initial") =>
          (j < i /\ j \in run.settled)

\* C15: in _validate the typeError, oneOf and notOneOf tests run as a first
\* batch, in that order, and no test of the queue is started before the batch
\* is over; when the batch fails and abortEarly is set the callback gets that
\* error and no test of the queue is run; when abortEarly is not set the
\* queue is run after the batch.
C15_BatchThenQueue ==
  /\ BatchBeforeQueue
  /\ (InitialFailed /\ run.abortEarly) =>
       /\ StartedOf("queue") = << >>
       /\ run.phase = "done" =>
            /\ run.result.kind = "ValidationError"
            /\ IsPrefix(run.result.errors, StartedOf("initial"))
  /\ (run.phase = "done" /\ ~ run.abortEarly /\ run.node.tests # << >>) =>
       StartedOf("queue") # << >>

\* What the code does instead: the queue is run when no test of the first
\* batch failed, whatever abortEarly is.
BatchThenQueueUnlessFailed ==
  /\ BatchBeforeQueue
  /\ InitialFailed => StartedOf("queue") = << >>
  /\ (run.phase = "done" /\ ~ InitialFailed /\ run.node.tests # << >>) =>
       StartedOf("queue") # << >>

\* C16: in every _validate call the completion callback is called exactly
\* once: never twice, not before every started test has settled, and a call
\* that has not called it yet has a test to run or a test to settle.
C16_CallbackExactlyOnce ==
  /\ run.cbs <= 1
  /\ run.phase = "done" <=> run.cbs = 1
  /\ run.cbs = 1 => Pending(run) = {}
  /\ run.phase \in {"initial", "queue"} =>
       IF run.options.sync
       THEN Len(StartedOf(run.phase)) < Len(BatchTests(run))
       ELSE Pending(run) # {}

\* An asynchronous call without abortEarly whose first batch passed and whose
\* two failing tests of the queue settled last first: the callback was called
\* once, with both failures in registration order.
C16_Witness ==
  /\ run.phase = "done"
  /\ run.cbs = 1
  /\ ~ run.options.sync
  /\ ~ run.abortEarly
  /\ Len(run.failed) = 2
  /\ run.failed[1] > run.failed[2]
  /\ run.result = Failed(run.value, run.node.tests)

\* The call in progress, once over, gave what _validate gives in one piece
\* (when the order in which the tests settle cannot matter).
RunAgreesWithValidate ==
  (run.phase = "done" /\ (run.options.sync \/ ~ run.abortEarly)) =>
     run.result = _validateValue(run.node, run.value, run.options, run.abortEarly)

(***************************************************************************)
(* Nested withMutation calls, with mutators called inside and outside them. *)
(***************************************************************************)
NextWindows ==
  \/ \E n \in DOMAIN schemas : Enter(MaxDepth + 1, n)
  \/ WithMutationReturn
  \/ WithMutationThrow
  \/ \E r \in DOMAIN schemas : Label(MaxCalls, r)

SpecWindows == Init /\ [][NextWindows]_vars

\* C17: while a withMutation call on a node is in progress, at any depth of
\* nesting, the node's flag is set and a mutator called on the node returns
\* the node itself; a call that returns leaves the flag as it was before the
\* call.
C17_WindowsNest ==
  /\ \A i \in DOMAIN stack : schemas[stack[i].node].mutate
  /\ \A k \in DOMAIN hist :
       (hist[k].op \in Mutators /\ hist[k].err = "none" /\ hist[k].inWindow) =>
          /\ hist[k].ret = hist[k].recv
          /\ hist[k].pre.mutate
  /\ ended.how = "return" => ended.after = ended.before

\* An inner call on a node has returned while the outer call on it is in
\* progress, and a mutator called on the node returned the node itself.
C17_Witness ==
  /\ Len(stack) = 1
  /\ ended.how = "return"
  /\ ended.node = stack[1].node
  /\ ~ ended.outermost
  /\ ended.after
  /\ hist # << >>
  /\ hist[Len(hist)].op = "label"
  /\ hist[Len(hist)].recv = stack[1].node
  /\ hist[Len(hist)].ret = stack[1].node
  /\ View(Heap, stack[1].node).label = "l"

(***************************************************************************)
(* Transforms and defaults on a fresh node, then cast without the final    *)
(* type check.                                                             *)
(***************************************************************************)
NextTransform ==
  \/ \E r \in DOMAIN schemas, fn \in TransformFns \cup {"fill"} :
       Transform(MaxCalls + 1, r, fn)
  \/ \E r \in DOMAIN schemas, def \in {Value("a"), Factory("1")} :
       Default(MaxCalls + 1, r, def)
  \/ \E r \in DOMAIN schemas, value \in {Undefined, "a"} :
       Cast(MaxCalls + 2, r, value, Asserting("false"))

SpecTransform == Init /\ [][NextTransform]_vars

\* The raw value after each of the first i transforms, in registration order:
\* each transform is given the value so far and the raw value.
Folded(fns, rawValue) ==
  LET after[i \in 0..Len(fns)] ==
        IF i = 0 THEN rawValue
        ELSE ApplyTransform(fns[i], after[i - 1], rawValue)
  IN after[Len(fns)]

\* The value after the transform step: an undefined raw value is left alone.
Transformed(node, rawValue) ==
  IF rawValue = Undefined THEN Undefined ELSE Folded(node.transforms, rawValue)

\* C18: the cast value of an undefined raw value goes through no transform,
\* that of a defined one through the transforms in registration order, each
\* given the current and the raw value; the default (the factory's result or
\* the stored value) is returned exactly when the value after the transforms
\* is undefined, and the transformed value otherwise.
C18_CastFoldsThenDefaults ==
  out.op = "cast" =>
    out.result = Returned(IF Transformed(out.node, out.value) = Undefined
                          THEN out.node.spec.default.v
                          ELSE Transformed(out.node, out.value))

\* A cast of a defined raw value through two transforms, the second of which
\* leaves undefined, so that the factory's result is returned.
C18_Witness ==
  /\ out.op = "cast"
  /\ out.node.transforms = <<"toNumber", "toUndefined">>
  /\ out.value = "a"
  /\ out.node.spec.default = Factory("1")
  /\ out.result = Returned("1")

(***************************************************************************)
(* Further registrations after an exclusive test named "x" was added to a  *)
(* node holding a non-exclusive test named "x":                            *)
(* create().test({name: 'x', test: f1})                                    *)
(*         .test({name: 'x', exclusive: true, test: f2})                   *)
(***************************************************************************)
Replaced ==
  Only(test(Only(test(Fresh, 1, TestConfig("x", FALSE, "f1"))), 1,
            TestConfig("x", TRUE, "f2")))

InitReplaced ==
  /\ schemas = Replaced.s
  /\ tables = Replaced.t
  /\ stack = << >>
  /\ hist = << >>
  /\ calls = 0
  /\ out = NoOut
  /\ run = NoRun
  /\ ended = NoneEnded

NextFurther ==
  \E r \in DOMAIN schemas, name \in TestNames, exclusive \in BOOLEAN,
     fn \in TestFns :
    Test(MaxCalls + 1, r, name, exclusive, fn)

SpecFurther == InitReplaced /\ [][NextFurther]_vars

\* C19: every node of the heap descends from the node the exclusive test
\* named "x" was added to; after each further registration under "x" the
\* queue holds one test named "x", the one registered.
C19_FurtherTestsReplaceEachOther ==
  \A k \in DOMAIN hist :
    (hist[k].op = "test" /\ hist[k].err = "none" /\ hist[k].opts.name = "x") =>
       Named(hist[k].post.tests, "x") = <<hist[k].opts>>

\* What the code does: the registration right after an exclusive one
\* replaces it, and so does every exclusive registration.
FurtherTestReplacesExclusive ==
  \A k \in DOMAIN hist :
    (/\ hist[k].op = "test" /\ hist[k].err = "none" /\ hist[k].opts.name = "x"
     /\ hist[k].opts.exclusive \/ hist[k].pre.exclusive["x"] = "true") =>
       Named(hist[k].post.tests, "x") = <<hist[k].opts>>

(***************************************************************************)
(* oneOf, notOneOf and concat from a fresh node, with literal values and   *)
(* references among the enums.                                             *)
(***************************************************************************)
RefEnums == {{Lit("1")}, {Ref("d")}, {Lit("1"), Ref("d")}, {Lit("2"), Ref("c")}}

NextSets ==
  \/ \E r \in DOMAIN schemas, enums \in RefEnums : OneOf(MaxCalls + 1, r, enums)
  \/ \E r \in DOMAIN schemas, enums \in RefEnums :
       NotOneOf(MaxCalls + 1, r, enums)
  \/ \E r, a \in DOMAIN schemas : Concat(MaxCalls + 1, r, a)

SpecSets == Init /\ [][NextSets]_vars

\* C20: in every node the whitelist and the blacklist share no literal value
\* and no reference key.
C20_ListsDisjoint ==
  \A n \in DOMAIN schemas :
    /\ schemas[n].whitelist.list \cap schemas[n].blacklist.list = {}
    /\ schemas[n].whitelist.refs \cap schemas[n].blacklist.refs = {}

\* A concat whose receiver allows a literal value and a reference that its
\* argument forbids: the result forbids both and allows neither.
C20_Witness ==
  /\ hist # << >>
  /\ hist[Len(hist)].op = "concat"
  /\ hist[Len(hist)].err = "none"
  /\ "1" \in hist[Len(hist)].pre.whitelist.list
  /\ "d" \in hist[Len(hist)].pre.whitelist.refs
  /\ "1" \in hist[Len(hist)].argPre.blacklist.list
  /\ "d" \in hist[Len(hist)].argPre.blacklist.refs
  /\ hist[Len(hist)].post.blacklist = [list |-> {"1"}, refs |-> {"d"}]
  /\ hist[Len(hist)].post.whitelist = RefSet

\* No withMutation call on node n is in progress.
OutsideWindow(n) == \A i \in DOMAIN stack : stack[i].node # n

\* C21: the batch flag of a node is set only while a withMutation call on the
\* node is in progress, also after a call whose fn threw; so a mutator called
\* on a node with no call in progress returns another node and leaves the
\* node's fields as they were.
C21_FlagOnlyInsideWindow ==
  /\ \A n \in DOMAIN schemas : OutsideWindow(n) => ~ schemas[n].mutate
  /\ \A k \in DOMAIN hist :
       (hist[k].op \in Mutators /\ hist[k].err = "none" /\ ~ hist[k].inWindow)
         => /\ ~ hist[k].pre.mutate
            /\ hist[k].ret # hist[k].recv
            /\ Fields(hist[k].recvPost) = Fields(hist[k].pre)

\* What holds instead: the flag is set outside a window only on a node on
\* which a withMutation call has ended, and a call that returned on a node
\* with no other call in progress left the flag as it was before the call.
FlagOutsideWindowOnlyAfterCallEnded ==
  /\ ended.how = "none" =>
       \A n \in DOMAIN schemas : OutsideWindow(n) => ~ schemas[n].mutate
  /\ (ended.how = "return" /\ ended.outermost) => ended.after = ended.before

====
